---- MODULE Spec2Model ----
(***************************************************************************)
(* Forecast inserter: the ingestion pipeline (download -> parse -> write   *)
(* once), its two triggers (POST /insert and the RabbitMQ message          *)
(* handler), the ClickHouse writer and the consumer loop with backoff.     *)
(***************************************************************************)
EXTENDS Integers, Sequences, FiniteSets, TLC

\* ------------------------------------------------------------------ bounds
\* Pipeline runs (requests plus messages) one behaviour holds.
NumRuns == 2
\* Records a parsed file holds at most.
MaxRecords == 2
\* Message slots of the consumer specification.
ConsumerSlots == 1
\* Runs (each with its service) of the service specification.
ServiceSlots == 1
\* Runs of the single-run specification.
RunSlots == 1
\* Backoff sleeps recorded in `waits` (6 reaches the 30 s ceiling).
MaxWaits == 7
\* Unreferenced open connections counted (the count saturates here).
MaxLeaked == 2

\* Axes of a field's array at most.
MaxDims == 3
\* Extent of one axis at most.
MaxDim == 2
\* Coordinates a BUFR message lists per key at most.
MaxCoords == 2
\* Values a BUFR message holds under its measurement key at most.
MaxValues == 4
\* Pieces of a file name at most.
MaxPieces == 2

\* ------------------------------------------------------- program constants
\* The ceiling of backoff_seconds.
BackoffCeiling == 30
\* backoff_seconds before the first failure and after a subscription.
BackoffFloor == 1

Runs == 1..NumRuns

Min(a, b) == IF a <= b THEN a ELSE b

\* ------------------------------------------------------------------ inputs
\* A URL: its last path segment and its query string ("" when it has none).
NoUrl == [file |-> "", query |-> ""]
Urls ==
  { [file |-> "a.grib2", query |-> ""],
    [file |-> "b.grib2", query |-> "v=1"],
    [file |-> "bad.xyz", query |-> ""] }

\* The file behind the URL is one the codec library has a reader for
\* (bad.xyz: neither its extension nor its first bytes name a format).
KnownFormat(u) == u.file # "bad.xyz"

\* A logical file name: the last path segment and what follows it in the text.
NoName == <<"", "">>

\* payload.url.path.split("/")[-1]: the path of a parsed URL holds no query.
HttpFileName(u) == <<u.file, "">>

\* url.split("/")[-1] on the URL's text: the query stays on the last piece.
BrokerFileName(u) == <<u.file, u.query>>

\* Bytes the download of a URL yields.
SizeOf(u) == IF u.file = "a.grib2" THEN 2 ELSE 3

\* JSON values a message body can decode to.
JNum == [t |-> "num", u |-> NoUrl]
JNull == [t |-> "null", u |-> NoUrl]
JList == [t |-> "list", u |-> NoUrl]
JStr(u) == [t |-> "str", u |-> u]
JObjNoFile == [t |-> "obj", has |-> FALSE, file |-> JNull]
JObj(v) == [t |-> "obj", has |-> TRUE, file |-> v]

\* A message body: whether the bytes are UTF-8, whether the text is JSON, and
\* the value it denotes then.
Body(utf8, syntax, val) == [utf8 |-> utf8, syntax |-> syntax, val |-> val]
Bodies ==
  { Body(FALSE, FALSE, JNull),
    Body(TRUE, FALSE, JNull),
    Body(TRUE, TRUE, JNum),
    Body(TRUE, TRUE, JList),
    Body(TRUE, TRUE, JObjNoFile),
    Body(TRUE, TRUE, JObj(JNum)),
    Body(TRUE, TRUE, JObj(JNull)) }
  \cup { Body(TRUE, TRUE, JObj(JStr(u))) : u \in Urls }

\* ------------------------------------------------------------------ state
VARIABLES
  run,        \* per pipeline run: trigger, position, inputs and outcome
  svc,        \* per run: the DatabaseService instance it uses
  table,      \* rows of forecast_data
  metrics,    \* the Prometheus collectors
  cpc,        \* run_consumer: the await it stands at
  backoff,    \* run_consumer: backoff_seconds
  connection, \* run_consumer: the local `connection` ("none" | "open" | "closed")
  leaked,     \* open connections no variable refers to any more
  brokerUp,   \* whether the broker accepts connections and channel set-up
  waits,      \* the sleeps run_consumer has started, in order
  attempts,   \* calls of connect_robust so far (saturating like waits)
  setup,      \* set-up steps completed on the current connection, in order
  cancelAt,   \* where the cancellation reached run_consumer ("none" before)
  dec,        \* a decoder at work on one field: its input, then its outcome
  collectorsUp, \* whether the metric collectors accept updates
  closeErrs   \* exceptions of connection.close() that run_consumer logged

pipeVars == <<run, svc, table, metrics>>
loopVars == <<cpc, backoff, connection, leaked, waits, attempts, setup, cancelAt,
              closeErrs>>
consumerVars == <<cpc, backoff, connection, leaked, brokerUp, waits, attempts, setup,
                  cancelAt, closeErrs>>
vars == <<run, svc, table, metrics, cpc, backoff, connection, leaked, brokerUp,
          waits, attempts, setup, cancelAt, dec, collectorsUp, closeErrs>>

\* A run before its request or message arrives. `before` is history: the runs
\* whose insert_batch had returned when this run called insert_batch; `seen` is
\* the count() its existence query answered, `emitted` the collectors it updated,
\* `scratch` whether the file its download made with mkstemp exists, `recName`
\* the file_name its records carry.
IdleRun ==
  [ trigger |-> "none", pc |-> "idle", url |-> NoUrl, fname |-> NoName,
    n |-> 0, inserted |-> 0, returned |-> FALSE, status |-> 0, detail |-> "",
    failed |-> "none", err |-> "", raised |-> FALSE, final |-> "none",
    called |-> FALSE, before |-> {}, seen |-> 0, emitted |-> 0, scratch |-> FALSE,
    recName |-> NoName ]

OffRun == [IdleRun EXCEPT !.pc = "off"]

\* DatabaseService.__init__: a client, _closed = False.
NewService ==
  [ closed |-> FALSE, client |-> TRUE, disconnects |-> 0, closes |-> 0,
    sentClosed |-> FALSE, last |-> "none" ]

\* The collectors: three histograms (their observation counts), the
\* file_size_bytes gauge and the network_bytes_total counter.
NoMetrics == [download |-> 0, parse |-> 0, db |-> 0, size |-> 0, net |-> 0]

\* A metadata key the file does not carry.
NoMeta == "<absent>"

\* A numeric metadata key the file does not carry (the read gives None).
Missing == -1

\* A stepRange key the file does not carry; [a, b] stands for the text "a-b".
NoRange == [a |-> Missing, b |-> Missing]

\* A point in time: year, month, day, hour.
NoDate == [y |-> 0, m |-> 0, d |-> 0, h |-> 0]

\* The decoder at rest. Inputs of a field: its array, the BUFR coordinate
\* lists, the file name, the provider keys, the time keys (dataDate, dataTime
\* and the second key read for each; typicalYear..typicalHour of a BUFR
\* message), the step keys and the wall clock. Outcome: grid, len(values),
\* data_source, forecast_date, forecast_hour.
NoField ==
  [ path |-> "none", phase |-> "idle", has |-> FALSE, shape |-> <<>>,
    lats |-> <<>>, lons |-> <<>>, name |-> <<>>, meta |-> NoMeta,
    category |-> NoMeta, lat |-> 0, lon |-> 0, len |-> 0, source |-> "",
    dataDate |-> Missing, date |-> Missing, dataTime |-> Missing, time |-> Missing,
    year |-> Missing, month |-> Missing, day |-> Missing, hour |-> Missing,
    step |-> Missing, forecastTime |-> Missing, stepRange |-> NoRange,
    now |-> NoDate, fdate |-> NoDate, fhour |-> 0 ]

\* One row of forecast_data: the record's file_name and which record it is.
Row(r, i) == [file |-> run[r].recName, batch |-> r, idx |-> i]

RowsOf(r) == {w \in table : w.batch = r}
RowsUnder(f) == {w \in table : w.file = f}

\* ---------------------------------------------------------------- pipeline
\* Stages of handle_message that block the event loop (synchronous calls).
SyncStages == {"download", "parse", "check", "insert", "metrics"}

\* The event loop is inside a handler's synchronous part.
LoopBusy == \E r \in Runs : run[r].trigger = "broker" /\ run[r].pc \in SyncStages

\* What handle_message makes of a body before the pipeline starts:
\* decode("utf-8"), json.loads, payload["file"], url.split("/").
ParseBody(b) ==
  IF ~b.utf8 THEN [out |-> "decode", url |-> NoUrl]
  ELSE IF ~b.syntax THEN [out |-> "json", url |-> NoUrl]
  ELSE IF b.val.t # "obj" THEN [out |-> "json", url |-> NoUrl]
  ELSE IF ~b.val.has THEN [out |-> "json", url |-> NoUrl]
  ELSE IF b.val.file.t # "str" THEN [out |-> "split", url |-> NoUrl]
  ELSE [out |-> "ok", url |-> b.val.file.u]

CaughtInHandlerJsonOnly(stage) == stage = "json"

\* The failures handle_message catches itself (its two try blocks).
CaughtInHandler(stage) == stage \in {"json", "download", "parse", "store", "metrics"}

\* The status POST /insert raises for a failed stage.
HttpStatusOf(stage) ==
  CASE stage = "download" -> 400
    [] stage = "parse" -> 500
    [] stage = "store" -> 500
    [] OTHER -> 500

DetailOf(stage) ==
  CASE stage = "download" -> "Download error"
    [] stage = "parse" -> "Parsing error"
    [] stage = "store" -> "DB error"
    [] OTHER -> ""

FailTriesAgain(r, stage, err) ==
  [run[r] EXCEPT !.pc = "download", !.err = err]

FailGoesOn(r, stage, err) ==
  [run[r] EXCEPT !.pc = "check", !.failed = stage, !.err = err]

\* A stage of run r fails: POST /insert answers at once, the message handler
\* logs (or lets the exception go) and leaves the message scope.
Fail(r, stage, err) ==
  IF run[r].trigger = "http"
  THEN [run[r] EXCEPT !.pc = "done", !.failed = stage, !.err = err,
                      !.status = HttpStatusOf(stage), !.detail = DetailOf(stage)]
  ELSE [run[r] EXCEPT !.pc = "exit", !.failed = stage, !.err = err,
                      !.raised = ~CaughtInHandler(stage)]

ConnClosedUnchecked(s) == FALSE

\* self._closed or self.client is None
ConnClosed(s) == s.closed \/ ~s.client

AlreadyIngestedOffByOne(f) == Cardinality(RowsUnder(f)) > 1

\* int(res.result_rows[0][0]) > 0 of the count() query
AlreadyIngested(f) == Cardinality(RowsUnder(f)) > 0

\* A statement goes to the datastore through service s.
Sent(s) == [s EXCEPT !.sentClosed = @ \/ s.disconnects > 0]

\* Run slot r is the next unused one (slots are taken in order).
Fresh(r) == run[r].pc = "idle" /\ \A q \in Runs : q < r => run[q].pc # "idle"

\* POST /insert, up to the call of the downloader.
HttpRequest(r, u) ==
  /\ Fresh(r)
  /\ run' = [run EXCEPT ![r] = [@ EXCEPT !.trigger = "http", !.pc = "download",
                                          !.url = u, !.fname = HttpFileName(u)]]
  /\ UNCHANGED <<svc, table, metrics>>
  /\ UNCHANGED consumerVars
  /\ UNCHANGED <<dec, collectorsUp>>

\* handle_message, up to the call of the downloader.
HandleMessage(r, b) ==
  /\ Fresh(r)
  /\ ~LoopBusy
  /\ LET p == ParseBody(b)
         m == [run[r] EXCEPT !.trigger = "broker"]
     IN run' = [run EXCEPT ![r] =
          IF p.out = "ok"
          THEN [m EXCEPT !.pc = "download", !.url = p.url,
                         !.fname = BrokerFileName(p.url)]
          ELSE [m EXCEPT !.pc = "exit", !.failed = p.out,
                         !.raised = ~CaughtInHandler(p.out)]]
  /\ UNCHANGED <<svc, table, metrics>>
  /\ UNCHANGED consumerVars
  /\ UNCHANGED <<dec, collectorsUp>>

\* download_to_tempfile: the file arrives in a scratch file, or the transfer
\* raises, before mkstemp (connect, raise_for_status) or after it (iter_bytes).
Download(r) ==
  /\ run[r].pc = "download"
  /\ \/ run' = [run EXCEPT ![r] = [@ EXCEPT !.pc = "parse", !.scratch = TRUE]]
     \/ \E made \in BOOLEAN :
          run' = [run EXCEPT ![r] =
            [Fail(r, "download", "transport") EXCEPT !.scratch = made]]
  /\ UNCHANGED <<svc, table, metrics>>
  /\ UNCHANGED consumerVars
  /\ UNCHANGED <<dec, collectorsUp>>

RecordNameFromUrl(r) == BrokerFileName(run[r].url)

\* file_name=file_name of a record: the argument of parse_file, for which both
\* callers pass their file_name.
RecordName(r) == run[r].fname

\* ParserService.parse_file: n records, each carrying file_name, or a raise.
\* from_source() finds the reader itself; a file it has no reader for cannot
\* be iterated over, so the loop over its fields raises.
ParseFile(r) ==
  /\ run[r].pc = "parse"
  /\ \/ /\ KnownFormat(run[r].url)
        /\ \E n \in 0..MaxRecords :
             run' = [run EXCEPT ![r] =
               [@ EXCEPT !.pc = "check", !.n = n, !.recName = RecordName(r)]]
     \/ run' = [run EXCEPT ![r] = Fail(r, "parse", "decode")]
  /\ UNCHANGED <<svc, table, metrics>>
  /\ UNCHANGED consumerVars
  /\ UNCHANGED <<dec, collectorsUp>>

\* Runs whose insert_batch has returned.
Returned == {q \in Runs : run[q].returned}

\* insert_batch up to the bulk insert: the closed check, then the existence
\* query, which answers or raises.
InsertBatchCheck(r) ==
  /\ run[r].pc = "check"
  /\ LET m == [run[r] EXCEPT !.called = TRUE, !.before = Returned,
                             !.seen = Cardinality(RowsUnder(run[r].fname))]
     IN IF ConnClosed(svc[r])
        THEN /\ run' = [run EXCEPT ![r] =
                  [Fail(r, "store", "closed") EXCEPT !.called = TRUE, !.before = Returned]]
             /\ svc' = svc
        ELSE /\ svc' = [svc EXCEPT ![r] = Sent(@)]
             /\ \/ run' = [run EXCEPT ![r] =
                     IF AlreadyIngested(run[r].fname)
                     THEN [m EXCEPT !.pc = "metrics", !.inserted = 0, !.returned = TRUE]
                     ELSE [m EXCEPT !.pc = "insert"]]
                \/ run' = [run EXCEPT ![r] =
                     [Fail(r, "store", "backend") EXCEPT !.called = TRUE, !.before = Returned]]
  /\ UNCHANGED <<table, metrics>>
  /\ UNCHANGED consumerVars
  /\ UNCHANGED <<dec, collectorsUp>>

\* client.insert of the whole batch: all rows stored, or a raise after k rows.
BulkInsert(r) ==
  /\ run[r].pc = "insert"
  /\ svc' = [svc EXCEPT ![r] = Sent(@)]
  /\ \/ /\ table' = table \cup {Row(r, i) : i \in 1..run[r].n}
        /\ run' = [run EXCEPT ![r] =
             [@ EXCEPT !.pc = "metrics", !.inserted = run[r].n, !.returned = TRUE]]
     \/ \E k \in 0..(run[r].n - 1) :
          /\ table' = table \cup {Row(r, i) : i \in 1..k}
          /\ run' = [run EXCEPT ![r] = Fail(r, "store", "backend")]
     \/ /\ run[r].n = 0
        /\ table' = table
        /\ run' = [run EXCEPT ![r] = Fail(r, "store", "backend")]
  /\ UNCHANGED metrics
  /\ UNCHANGED consumerVars
  /\ UNCHANGED <<dec, collectorsUp>>

\* The number of collectors an emission updates.
Collectors == 5

EmittedIncByOne(m, k, size) ==
  [ download |-> m.download + (IF k >= 1 THEN 1 ELSE 0),
    parse |-> m.parse + (IF k >= 2 THEN 1 ELSE 0),
    db |-> m.db + (IF k >= 3 THEN 1 ELSE 0),
    size |-> IF k >= 4 THEN size ELSE m.size,
    net |-> m.net + (IF k >= 5 THEN 1 ELSE 0) ]

\* The collectors after the first k updates of an emission for a file of the
\* given size: observe, observe, observe, set, inc, in that order.
Emitted(m, k, size) ==
  [ download |-> m.download + (IF k >= 1 THEN 1 ELSE 0),
    parse |-> m.parse + (IF k >= 2 THEN 1 ELSE 0),
    db |-> m.db + (IF k >= 3 THEN 1 ELSE 0),
    size |-> IF k >= 4 THEN size ELSE m.size,
    net |-> m.net + (IF k >= 5 THEN size ELSE 0) ]

\* The five collectors are updated and POST /insert answers 200, or (with
\* collectors that refuse updates) one raises after k updates: POST /insert has
\* no handler for that (the framework answers 500), the message handler logs it.
EmitMetrics(r) ==
  /\ run[r].pc = "metrics"
  /\ \E k \in 0..Collectors :
       /\ k < Collectors => ~collectorsUp
       /\ metrics' = Emitted(metrics, k, SizeOf(run[r].url))
       /\ run' = [run EXCEPT ![r] =
            IF k < Collectors
            THEN [Fail(r, "metrics", "collector") EXCEPT !.emitted = k]
            ELSE IF run[r].trigger = "http"
            THEN [@ EXCEPT !.pc = "done", !.status = 200, !.emitted = k]
            ELSE [@ EXCEPT !.pc = "exit", !.emitted = k]]
  /\ UNCHANGED <<svc, table>>
  /\ UNCHANGED consumerVars
  /\ UNCHANGED <<dec, collectorsUp>>

FinalizeOnReceipt(r) ==
  /\ run[r].trigger = "broker" /\ run[r].pc = "download" /\ run[r].final = "none"
  /\ run' = [run EXCEPT ![r] = [@ EXCEPT !.final = "ack"]]
  /\ UNCHANGED <<svc, table, metrics>>
  /\ UNCHANGED consumerVars
  /\ UNCHANGED <<dec, collectorsUp>>

\* message.process(requeue=False) ends: ack on a normal exit, reject without
\* requeue when an exception passes through, which then leaves handle_message.
Finalize(r) ==
  /\ run[r].pc = "exit"
  /\ run' = [run EXCEPT ![r] =
       [@ EXCEPT !.pc = "done", !.final = IF run[r].raised THEN "reject" ELSE "ack"]]
  /\ UNCHANGED <<svc, table, metrics>>
  /\ UNCHANGED consumerVars
  /\ UNCHANGED <<dec, collectorsUp>>

\* The steps of a started run.
Stage(r) ==
  \/ Download(r)
  \/ ParseFile(r)
  \/ InsertBatchCheck(r)
  \/ BulkInsert(r)
  \/ EmitMetrics(r)
  \/ Finalize(r)

\* The consumer before app startup creates its task.
ConsumerInit ==
  /\ cpc = "connect"
  /\ backoff = BackoffFloor
  /\ connection = "none"
  /\ leaked = 0
  /\ brokerUp = TRUE
  /\ waits = <<>>
  /\ attempts = 0
  /\ setup = <<>>
  /\ cancelAt = "none"
  /\ closeErrs = 0
  /\ dec = NoField

Init ==
  /\ run = [r \in Runs |-> IdleRun]
  /\ svc = [r \in Runs |-> NewService]
  /\ table = {}
  /\ metrics = NoMetrics
  /\ collectorsUp = TRUE
  /\ ConsumerInit

\* The URLs of files the codec library reads, and the bodies that name no other.
KnownUrls == {u \in Urls : KnownFormat(u)}
KnownBodies == {b \in Bodies : ParseBody(b).out = "ok" => KnownFormat(ParseBody(b).url)}

\* Requests and messages for such files handled by the pipeline, in any
\* interleaving the thread pool and the event loop allow.
Next ==
  \/ \E r \in Runs, u \in KnownUrls : HttpRequest(r, u)
  \/ \E r \in Runs, b \in KnownBodies : HandleMessage(r, b)
  \/ \E r \in Runs : Stage(r)

Spec == Init /\ [][Next]_vars

\* Rows an earlier ingestion of a.grib2 left in forecast_data.
StoredBefore == {[file |-> <<"a.grib2", "">>, batch |-> 0, idx |-> 1]}

InitRun ==
  /\ run = [r \in Runs |-> IF r <= RunSlots THEN IdleRun ELSE OffRun]
  /\ svc = [r \in Runs |-> NewService]
  /\ table \in {{}, StoredBefore}
  /\ metrics = NoMetrics
  /\ collectorsUp \in BOOLEAN
  /\ ConsumerInit

\* Requests and messages for any file.
NextRun ==
  \/ \E r \in Runs, u \in Urls : HttpRequest(r, u)
  \/ \E r \in Runs, b \in Bodies : HandleMessage(r, b)
  \/ \E r \in Runs : Stage(r)

\* Pipeline runs against a datastore that is empty or not, with collectors
\* that work or not.
SpecRun == InitRun /\ [][NextRun]_vars

\* ----------------------------------------------------------------- service
\* The instance of run r is inside no call.
AtRest(r) == run[r].pc \in {"idle", "done"}

\* DatabaseService.disconnect(): closes the client once, then does nothing.
Disconnect(r) ==
  /\ AtRest(r)
  /\ svc' = [svc EXCEPT ![r] =
       IF ~svc[r].closed /\ svc[r].client
       THEN [@ EXCEPT !.closed = TRUE, !.client = FALSE, !.closes = @ + 1,
                      !.disconnects = Min(@ + 1, 2)]
       ELSE [@ EXCEPT !.disconnects = Min(@ + 1, 2)]]
  /\ UNCHANGED <<run, table, metrics>>
  /\ UNCHANGED consumerVars
  /\ UNCHANGED <<dec, collectorsUp>>

\* DatabaseService._already_ingested(file_name), called on its own.
CallAlreadyIngested(r, f) ==
  /\ AtRest(r)
  /\ svc' = [svc EXCEPT ![r] =
       IF ConnClosed(svc[r])
       THEN [@ EXCEPT !.last = "closed"]
       ELSE [Sent(@) EXCEPT !.last = IF AlreadyIngested(f) THEN "true" ELSE "false"]]
  /\ UNCHANGED <<run, table, metrics>>
  /\ UNCHANGED consumerVars
  /\ UNCHANGED <<dec, collectorsUp>>

\* DatabaseService.clear_data(): TRUNCATE TABLE forecast_data.
ClearData(r) ==
  /\ AtRest(r)
  /\ IF ConnClosed(svc[r])
     THEN /\ svc' = [svc EXCEPT ![r] = [@ EXCEPT !.last = "closed"]]
          /\ table' = table
     ELSE /\ svc' = [svc EXCEPT ![r] = [Sent(@) EXCEPT !.last = "ok"]]
          /\ table' = {}
  /\ UNCHANGED <<run, metrics>>
  /\ UNCHANGED consumerVars
  /\ UNCHANGED <<dec, collectorsUp>>

\* POST /insert with services a caller holds, disconnects and calls directly
\* (an injected dependency, the tests' clean-up); the message handler builds
\* its service itself and hands it to nobody.
NextService ==
  \/ \E r \in Runs, u \in Urls : HttpRequest(r, u)
  \/ \E r \in Runs : Download(r)
  \/ \E r \in Runs : ParseFile(r)
  \/ \E r \in Runs : InsertBatchCheck(r)
  \/ \E r \in Runs : BulkInsert(r)
  \/ \E r \in Runs : EmitMetrics(r)
  \/ \E r \in Runs : Disconnect(r)
  \/ \E r \in Runs, u \in Urls : CallAlreadyIngested(r, HttpFileName(u))
  \/ \E r \in Runs : ClearData(r)

InitService ==
  /\ run = [r \in Runs |-> IF r <= ServiceSlots THEN IdleRun ELSE OffRun]
  /\ svc = [r \in Runs |-> NewService]
  /\ table = {}
  /\ metrics = NoMetrics
  /\ collectorsUp = TRUE
  /\ ConsumerInit

SpecService == InitService /\ [][NextService]_vars

\* ---------------------------------------------------------------- consumer
\* min(backoff_seconds * 2, 30)
NextBackoffUncapped(b) == b * 2

NextBackoff(b) == Min(b * 2, BackoffCeiling)

RetryPcGivesUp == "returned"

\* `while True`: after the sleep the loop tries again.
RetryPc == "connect"

ReraiseError ==
  /\ cpc' = "raised"
  /\ UNCHANGED <<backoff, connection, leaked, waits, attempts, setup, cancelAt, closeErrs>>

\* An Exception inside the try: logged, then asyncio.sleep(backoff_seconds).
StartSleep ==
  /\ cpc' = "sleep"
  /\ waits' = IF Len(waits) < MaxWaits THEN Append(waits, backoff) ELSE waits
  /\ UNCHANGED <<backoff, connection, leaked, attempts, setup, cancelAt, closeErrs>>

\* await aio_pika.connect_robust(url)
Connect ==
  /\ cpc = "connect"
  /\ attempts' = Min(attempts + 1, MaxWaits)
  /\ IF brokerUp
     THEN /\ connection' = "open"
          /\ leaked' = IF connection = "open" THEN Min(leaked + 1, MaxLeaked) ELSE leaked
          /\ setup' = <<"connect">>
          /\ cpc' = "channel"
          /\ UNCHANGED <<backoff, waits, cancelAt, closeErrs>>
     ELSE /\ cpc' = "sleep"
          /\ waits' = IF Len(waits) < MaxWaits THEN Append(waits, backoff) ELSE waits
          /\ UNCHANGED <<backoff, connection, leaked, setup, cancelAt, closeErrs>>
  /\ UNCHANGED brokerUp
  /\ UNCHANGED pipeVars
  /\ UNCHANGED <<dec, collectorsUp>>

\* One awaited set-up call on the connection: it returns, or it raises.
SetupStep(at, done, next) ==
  /\ cpc = at
  /\ IF brokerUp
     THEN /\ setup' = Append(setup, done)
          /\ cpc' = next
          /\ UNCHANGED <<backoff, connection, leaked, waits, attempts, cancelAt, closeErrs>>
     ELSE StartSleep
  /\ UNCHANGED brokerUp
  /\ UNCHANGED pipeVars
  /\ UNCHANGED <<dec, collectorsUp>>

\* await connection.channel()
OpenChannel == SetupStep("channel", "channel", "qos")

\* await channel.set_qos(prefetch_count=settings.rabbitmq_prefetch)
SetQos == SetupStep("qos", "qos", "declare")

DeclareQueueNotDurable == SetupStep("declare", "declare", "consume")

\* await channel.declare_queue(settings.rabbitmq_queue, durable=True)
DeclareQueue == SetupStep("declare", "declare_durable", "consume")

\* await queue.consume(handle_message), then backoff_seconds = 1 and the wait
\* on a future nobody completes.
Consume ==
  /\ cpc = "consume"
  /\ IF brokerUp
     THEN /\ setup' = Append(setup, "consume")
          /\ backoff' = BackoffFloor
          /\ cpc' = "subscribed"
          /\ UNCHANGED <<connection, leaked, waits, attempts, cancelAt, closeErrs>>
     ELSE StartSleep
  /\ UNCHANGED brokerUp
  /\ UNCHANGED pipeVars
  /\ UNCHANGED <<dec, collectorsUp>>

\* asyncio.sleep returns: the backoff doubles up to the ceiling, the loop goes on.
Wake ==
  /\ cpc = "sleep"
  /\ backoff' = NextBackoff(backoff)
  /\ cpc' = RetryPc
  /\ UNCHANGED <<connection, leaked, brokerUp, waits, attempts, setup, cancelAt, closeErrs>>
  /\ UNCHANGED pipeVars
  /\ UNCHANGED <<dec, collectorsUp>>

CancelLandsUnprotected(at, conn) == "cancelled"

\* Where a CancelledError raised at await `at` lands: the future's wait sits in
\* try/finally, the other awaits of the try go to `except CancelledError`
\* (which closes only a connection the variable holds), the sleep sits in the
\* `except Exception` handler, which nothing encloses.
CancelLands(at, conn) ==
  CASE at = "subscribed" -> "finally"
    [] at = "sleep" -> "cancelled"
    [] OTHER -> IF conn # "none" THEN "on_cancel" ELSE "cancelled"

\* task.cancel() of on_shutdown reaches run_consumer at the await it stands at.
Cancel ==
  /\ cpc \in {"connect", "channel", "qos", "declare", "consume", "subscribed", "sleep"}
  /\ ~LoopBusy
  /\ cancelAt' = cpc
  /\ cpc' = CancelLands(cpc, connection)
  /\ UNCHANGED <<backoff, connection, leaked, brokerUp, waits, attempts, setup, closeErrs>>
  /\ UNCHANGED pipeVars
  /\ UNCHANGED <<dec, collectorsUp>>

\* await connection.close() inside try/except Exception: the connection is
\* given up, and an exception of the closing handshake is logged.
Close ==
  /\ connection' = "closed"
  /\ \E ok \in BOOLEAN : closeErrs' = IF ok THEN closeErrs ELSE closeErrs + 1

\* finally: await connection.close(); the CancelledError goes on to the handler.
CloseInFinally ==
  /\ cpc = "finally"
  /\ ~LoopBusy
  /\ Close
  /\ cpc' = "on_cancel"
  /\ UNCHANGED <<backoff, leaked, brokerUp, waits, attempts, setup, cancelAt>>
  /\ UNCHANGED pipeVars
  /\ UNCHANGED <<dec, collectorsUp>>

\* except CancelledError: close the connection the variable holds, re-raise.
CloseOnCancel ==
  /\ cpc = "on_cancel"
  /\ ~LoopBusy
  /\ Close
  /\ cpc' = "cancelled"
  /\ UNCHANGED <<backoff, leaked, brokerUp, waits, attempts, setup, cancelAt>>
  /\ UNCHANGED pipeVars
  /\ UNCHANGED <<dec, collectorsUp>>

\* The broker goes down or comes back.
BrokerToggle ==
  /\ brokerUp' = ~brokerUp
  /\ UNCHANGED loopVars
  /\ UNCHANGED pipeVars
  /\ UNCHANGED <<dec, collectorsUp>>

\* The broker hands a message to the registered callback.
Deliver(r, b) ==
  /\ cpc = "subscribed"
  /\ connection = "open"
  /\ HandleMessage(r, b)

\* The steps run_consumer takes by itself.
ConsumerStep ==
  \/ Connect
  \/ OpenChannel
  \/ SetQos
  \/ DeclareQueue
  \/ Consume
  \/ Wake
  \/ CloseInFinally
  \/ CloseOnCancel

InitConsumer ==
  /\ run = [r \in Runs |-> IF r <= ConsumerSlots THEN IdleRun ELSE OffRun]
  /\ svc = [r \in Runs |-> NewService]
  /\ table = {}
  /\ metrics = NoMetrics
  /\ collectorsUp = TRUE
  /\ ConsumerInit

\* The consumer task, the broker and the messages it delivers.
NextConsumer ==
  \/ ConsumerStep
  \/ Cancel
  \/ BrokerToggle
  \/ \E r \in Runs, b \in Bodies : Deliver(r, b)
  \/ \E r \in Runs : Stage(r)

SpecConsumer == InitConsumer /\ [][NextConsumer]_vars

\* The event loop runs a task whose await has completed.
FairSpecConsumer == SpecConsumer /\ WF_vars(ConsumerStep)

\* ----------------------------------------------------------------- decoders
\* Shapes of the array a field holds (a 0-d array has shape <<>>).
Shapes == UNION {[1..k -> 1..MaxDim] : k \in 0..MaxDims}

\* Coordinate lists of a BUFR message (latitude or longitude key), over two
\* coordinate values.
Coords == UNION {[1..k -> {10, 20}] : k \in 0..MaxCoords}

\* A file name as the pieces of text it is made of.
Pieces == {"ERA5", "gfs", "Icon", "x"}
Names == UNION {[1..k -> Pieces] : k \in 1..MaxPieces}

\* The provider the decoder's metadata reports (NoMeta: no such key).
Metas == {NoMeta, "kwbc", "ecmf"}

\* str.lower()
Lower(w) ==
  CASE w = "ERA5" -> "era5"
    [] w = "Icon" -> "icon"
    [] OTHER -> w

\* The ordered table of resolve_data_source: pattern alternatives, provider.
Patterns ==
  << [keys |-> {"ecmwf", "era5", "ifs"}, src |-> "ecmwf"],
     [keys |-> {"gfs", "noaa"}, src |-> "gfs"],
     [keys |-> {"icon", "dwd"}, src |-> "icon"] >>

\* re.search(pat, text): some piece of the text is one of the alternatives.
Search(keys, text) == \E i \in DOMAIN text : text[i] \in keys

ResolveDataSourceCaseSensitive(name, fallback) ==
  LET hits == {k \in DOMAIN Patterns : Search(Patterns[k].keys, name)}
  IN IF hits = {} THEN fallback
     ELSE Patterns[CHOOSE k \in hits : \A j \in hits : k <= j].src

\* resolve_data_source(file_name, fallback): the first pattern of the table
\* found in the lowered name decides, else the fallback.
ResolveDataSource(name, fallback) ==
  LET low == [i \in DOMAIN name |-> Lower(name[i])]
      hits == {k \in DOMAIN Patterns : Search(Patterns[k].keys, low)}
  IN IF hits = {} THEN fallback
     ELSE Patterns[CHOOSE k \in hits : \A j \in hits : k <= j].src

\* The fallback a decoder passes: the reported provider, "unknown" without one.
FallbackSource(meta) == IF meta = NoMeta THEN "unknown" ELSE meta

\* Number of elements of an array of the given shape.
RECURSIVE Size(_)
Size(shape) == IF shape = <<>> THEN 1 ELSE Head(shape) * Size(Tail(shape))

\* np.unique(a).size
UniqueSize(a) == Cardinality({a[i] : i \in DOMAIN a})

\* What datetime.utcnow() answers: a day of a 30-day month, or of a 31-day one.
Clock == [y |-> 2026, m |-> 11, d |-> 1, h |-> 7]
Clocks == {Clock, [y |-> 2026, m |-> 12, d |-> 1, h |-> 7]}

\* Values of the time keys: dataDate as the number YYYYMMDD (20251131 names
\* no day), dataTime as the number HHMM, and the second key read for each.
DataDates == {Missing, 20251031, 20251131}
Dates == {Missing, 20251031}
DataTimes == {Missing, 0, 30, 1230}
Times == {Missing, 600}

\* Values of the BUFR keys typicalYear, typicalMonth, typicalDay, typicalHour.
Years == {Missing, 2025}
Months == {Missing, 10}
Days == {Missing, 15, 31}
Hours == {Missing, 6}

\* Values of the step keys: step, forecastTime, stepRange.
Steps == {Missing, 0, 6}
ForecastTimes == {Missing, 3}
StepRanges == {NoRange, [a |-> 0, b |-> 9]}

DaysIn(m) ==
  CASE m \in {4, 6, 9, 11} -> 30
    [] m = 2 -> 28
    [] OTHER -> 31

\* datetime(y, m, d, h) accepts its arguments (else it raises ValueError).
ValidDate(t) ==
  /\ t.y \in 1..9999 /\ t.m \in 1..12 /\ t.d \in 1..DaysIn(t.m) /\ t.h \in 0..23

\* int(str(date)[0:4]), int(str(date)[4:6]), int(str(date)[6:8]) of an
\* eight-digit number.
DateDigits(date, hh) ==
  [y |-> date \div 10000, m |-> (date \div 100) % 100, d |-> date % 100, h |-> hh]

\* t // 100 if t >= 100 else t
HourOf(t) == IF t >= 100 THEN t \div 100 ELSE t

\* bool(x) of a key's value: None and 0 are false.
Truthy(x) == x # Missing /\ x # 0

\* x or y
Or(x, y) == IF Truthy(x) THEN x ELSE y

\* forecast_date of parse_file: dataDate, else date; dataTime, else time; any
\* exception of the conversion (int(None) among them) gives utcnow().
ParseFileDate(f) ==
  LET data_date == IF f.dataDate # Missing THEN f.dataDate ELSE f.date
      data_time == IF f.dataTime # Missing THEN f.dataTime ELSE f.time
      t == DateDigits(data_date, HourOf(data_time))
  IN IF data_date = Missing \/ data_time = Missing THEN f.now
     ELSE IF ValidDate(t) THEN t ELSE f.now

\* forecast_date of GribParser: the variable's attribute or the dataset's; a
\* time of None counts as 0.
GribDate(f) ==
  LET data_date == Or(f.dataDate, f.date)
      data_time == Or(f.dataTime, f.time)
      tt == IF data_time # Missing THEN data_time ELSE 0
      t == DateDigits(data_date, HourOf(tt))
  IN IF data_date = Missing THEN f.now
     ELSE IF ValidDate(t) THEN t ELSE f.now

\* The arguments of datetime(year, month, day, hour) of BufrParser: each key
\* by itself, the wall clock's part for a missing one, 0 for a missing hour.
BufrDate(f) ==
  [ y |-> IF f.year # Missing THEN f.year ELSE f.now.y,
    m |-> IF f.month # Missing THEN f.month ELSE f.now.m,
    d |-> IF f.day # Missing THEN f.day ELSE f.now.d,
    h |-> IF f.hour # Missing THEN f.hour ELSE 0 ]

\* forecast_hour of parse_file: step, else forecastTime with default 0; the
\* stepRange branch needs a step of None after that.
ParseFileHour(f) ==
  LET step == IF f.step # Missing THEN f.step
              ELSE IF f.forecastTime # Missing THEN f.forecastTime ELSE 0
  IN IF step # Missing THEN step
     ELSE IF f.stepRange # NoRange THEN f.stepRange.b ELSE 0

\* forecast_hour of GribParser: step or forecastTime or stepRange, the part
\* after "-" of a range text.
GribHour(f) ==
  LET num == Or(f.step, f.forecastTime)
  IN IF Truthy(num) THEN num
     ELSE IF f.stepRange # NoRange THEN f.stepRange.b
     ELSE 0

\* One field handed to a decoder path: its array (has: not None), the BUFR
\* coordinate lists, the file name and the provider its metadata reports
\* (centre); a BUFR message also has a dataCategory.
Field(path, has, shape, lats, lons, name, meta) ==
  [NoField EXCEPT !.path = path, !.phase = "input", !.has = has, !.shape = shape,
                  !.lats = lats, !.lons = lons, !.name = name, !.meta = meta,
                  !.now = Clock]

\* dataCategory of a BUFR message, as a string (NoMeta: the key is missing).
Categories == {NoMeta, "0"}

\* The decoder paths.
Paths == {"parse_file", "grib", "bufr"}

\* The fields handed to a decoder path.
Fields(path) ==
  IF path = "bufr"
  THEN { [Field(path, TRUE, <<nv>>, lats, lons, name, "ecmf") EXCEPT !.category = c] :
           nv \in 0..MaxValues, lats \in Coords, lons \in Coords,
           name \in {n \in Names : Len(n) = 1}, c \in Categories }
  ELSE { Field(path, TRUE, shape, <<>>, <<>>, name, meta) :
           shape \in Shapes, name \in Names, meta \in Metas }
       \cup { Field(path, FALSE, <<>>, <<>>, <<>>, name, meta) :
           name \in Names, meta \in Metas }

\* Fields that differ in their time and step keys only.
TimeFields(path) ==
  IF path = "bufr"
  THEN { [Field(path, TRUE, <<1>>, <<10>>, <<10>>, <<"x">>, "ecmf") EXCEPT
            !.category = "0", !.year = y, !.month = m, !.day = d, !.hour = h, !.now = n] :
           y \in Years, m \in Months, d \in Days, h \in Hours, n \in Clocks }
  ELSE { [Field(path, TRUE, <<1, 1>>, <<>>, <<>>, <<"x">>, "ecmf") EXCEPT
            !.dataDate = dd, !.date = d, !.dataTime = dt, !.time = t,
            !.step = st, !.forecastTime = ft, !.stepRange = sr] :
           dd \in DataDates, d \in Dates, dt \in DataTimes, t \in Times,
           st \in Steps, ft \in ForecastTimes, sr \in StepRanges }

\* The record a decoder appends: grid_size_lat, grid_size_lon, len(values),
\* data_source, resolved with the value the path reads as fallback,
\* forecast_date and forecast_hour.
Record(f, lat, lon, len, reported, fdate, fhour) ==
  [f EXCEPT !.phase = "record", !.lat = lat, !.lon = lon, !.len = len,
            !.source = ResolveDataSource(f.name, FallbackSource(reported)),
            !.fdate = fdate, !.fhour = fhour]

Skipped(f) == [f EXCEPT !.phase = "skip"]
Raised(f) == [f EXCEPT !.phase = "raise"]

\* ParserService.parse_file, one field: 1-d and 2-d arrays as they are, any
\* other array through reshape((-1, shape[-1])), which raises for a 0-d array
\* (no last axis) and for an empty last axis.
ParseFileField(f) ==
  LET nd == Len(f.shape)
      Rec(lat, lon) ==
        Record(f, lat, lon, Size(f.shape), f.meta, ParseFileDate(f), ParseFileHour(f))
  IN
  IF ~f.has THEN Skipped(f)
  ELSE IF nd = 1 THEN Rec(f.shape[1], 1)
  ELSE IF nd = 2 THEN Rec(f.shape[1], f.shape[2])
  ELSE IF nd = 0 THEN Raised(f)
  ELSE IF f.shape[nd] = 0 THEN Raised(f)
  ELSE Rec(Size(f.shape) \div f.shape[nd], f.shape[nd])

\* GribParser.parse, one variable: reshape(-1) keeps every element, the grid
\* is the last two axes.
GribParserParse(f) ==
  LET nd == Len(f.shape) IN
  IF ~f.has THEN Skipped(f)
  ELSE IF nd < 2 THEN Skipped(f)
  ELSE Record(f, f.shape[nd - 1], f.shape[nd], Size(f.shape), f.meta,
              GribDate(f), GribHour(f))

\* BufrParser.parse, one message: datetime() of the typical* keys first, which
\* no handler encloses; the grid is unique latitudes by unique longitudes, and
\* a value count that does not fit raises. The fallback of data_source is the
\* message's dataCategory, not its centre; forecast_hour is 0.
BufrParserParse(f) ==
  LET nv == Size(f.shape)
      grid_size_lat == UniqueSize(f.lats)
      grid_size_lon == UniqueSize(f.lons)
  IN IF ~ValidDate(BufrDate(f)) THEN Raised(f)
     ELSE IF nv = 0 \/ Len(f.lats) = 0 \/ Len(f.lons) = 0 THEN Skipped(f)
     ELSE IF nv # grid_size_lat * grid_size_lon THEN Raised(f)
     ELSE Record(f, grid_size_lat, grid_size_lon, nv, f.category, BufrDate(f), 0)

\* A decoder path takes the field it was handed.
Decode(path, outcome) ==
  /\ dec.phase = "input"
  /\ dec.path = path
  /\ dec' = outcome
  /\ UNCHANGED pipeVars
  /\ UNCHANGED consumerVars
  /\ UNCHANGED collectorsUp

DecodeParseFile == Decode("parse_file", ParseFileField(dec))
DecodeGrib == Decode("grib", GribParserParse(dec))
DecodeBufr == Decode("bufr", BufrParserParse(dec))

InitDecoder ==
  /\ run = [r \in Runs |-> OffRun]
  /\ svc = [r \in Runs |-> NewService]
  /\ table = {}
  /\ metrics = NoMetrics
  /\ cpc = "connect"
  /\ backoff = BackoffFloor
  /\ connection = "none"
  /\ leaked = 0
  /\ brokerUp = TRUE
  /\ waits = <<>>
  /\ attempts = 0
  /\ setup = <<>>
  /\ cancelAt = "none"
  /\ closeErrs = 0
  /\ collectorsUp = TRUE
  /\ \E path \in Paths : dec \in Fields(path) \cup TimeFields(path)

NextDecoder ==
  \/ DecodeParseFile
  \/ DecodeGrib
  \/ DecodeBufr

\* Each decoder path on every field of the bounded input set.
SpecDecoder == InitDecoder /\ [][NextDecoder]_vars

\* ------------------------------------------------------------------ claims
\* C11: every record a decoder path produces has len(values) equal to
\* grid_size_lat * grid_size_lon.
C11_GridInvariant == dec.phase = "record" => dec.len = dec.lat * dec.lon

\* The providers whose keyword a file name contains, whatever the case.
ProvidersIn(name) ==
  { Patterns[k].src : k \in { j \in DOMAIN Patterns :
      \E i \in DOMAIN name : name[i] \in Patterns[j].keys \/ Lower(name[i]) \in Patterns[j].keys } }

\* C12: the data_source of a record of parse_file (and of GribParser) is a
\* provider whose keyword the file name contains when there is one, else the
\* provider the decoder reports, else "unknown".
C12_SourcePrecedence ==
  (dec.phase = "record" /\ dec.path \in {"parse_file", "grib"}) =>
    IF ProvidersIn(dec.name) # {} THEN dec.source \in ProvidersIn(dec.name)
    ELSE IF dec.meta # NoMeta THEN dec.source = dec.meta
    ELSE dec.source = "unknown"

\* C12 witness: a name with an upper-case keyword beats the reported provider.
C12_Witness ==
  /\ dec.phase = "record" /\ dec.path = "parse_file" /\ dec.name = <<"x", "ERA5">> /\ dec.meta = "kwbc"
  /\ dec.source = "ecmwf"

\* C13: a run for a file of unknown format makes no existence check and no
\* insert, and POST /insert answers 400 with a detail that mentions
\* "Unsupported file format".
C13_UnknownFormatRejected ==
  \A r \in Runs :
    (run[r].url # NoUrl /\ ~KnownFormat(run[r].url)) =>
      /\ ~run[r].called /\ RowsOf(r) = {}
      /\ (run[r].trigger = "http" /\ run[r].pc = "done" /\ run[r].failed # "download") =>
           run[r].status = 400 /\ run[r].detail = "Unsupported file format"

\* C14 as stated: a POST /insert whose three stages succeeded answers 200 with
\* the last path segment as file_name, and with inserted_rows > 0 when the
\* existence check found no row.
C14_SuccessAnswers200 ==
  \A r \in Runs :
    (run[r].trigger = "http" /\ run[r].pc = "done" /\ run[r].returned) =>
      /\ run[r].status = 200
      /\ run[r].fname[1] = run[r].url.file /\ run[r].fname[2] = ""
      /\ run[r].seen = 0 => run[r].inserted > 0

\* C15: a run whose three stages succeeded and whose metrics emission raised
\* ends as without the failure: 200 over HTTP, an acknowledged message.
C15_MetricsFailureHarmless ==
  \A r \in Runs :
    (run[r].pc = "done" /\ run[r].returned /\ run[r].failed = "metrics") =>
      /\ run[r].trigger = "http" => run[r].status = 200
      /\ run[r].trigger = "broker" => run[r].final = "ack" /\ ~run[r].raised

\* The stages of a run, and the positions of a message inside its scope.
StagePcs == {"download", "parse", "check", "insert", "metrics"}

\* C16: a message is finalized once, by the step that leaves its scope after
\* its last stage; during the stages it is not finalized, and a finalized
\* message stays as it is.
C16_FinalizedOnceAfterStages ==
  /\ [](\A r \in Runs :
          /\ run[r].pc \in StagePcs \cup {"exit", "idle"} => run[r].final = "none"
          /\ (run[r].trigger = "broker" /\ run[r].pc = "done") =>
               run[r].final \in {"ack", "reject"})
  /\ [][\A r \in Runs :
          /\ run[r].final # "none" => run'[r] = run[r]
          /\ run'[r].final # run[r].final =>
               run[r].pc = "exit" /\ run'[r].pc = "done"]_vars

\* C16 witness: a message whose three stages ran is acknowledged at the end.
C16_Witness ==
  \E r \in Runs :
    /\ run[r].trigger = "broker" /\ run[r].pc = "done" /\ run[r].final = "ack"
    /\ run[r].failed = "none" /\ run[r].inserted >= 1 /\ run[r].emitted = Collectors

\* C17: the stages of a run start in the order download, parse, write, each
\* after the one before it succeeded; a run whose download or parse failed has
\* made no existence check and no insert, and only a run's insert changes the
\* table.
C17_StagesInOrder ==
  /\ [](\A r \in Runs :
          run[r].failed \in {"download", "parse"} =>
            /\ ~run[r].called /\ RowsOf(r) = {} /\ svc[r] = NewService
            /\ run[r].pc \in {"done", "exit"})
  /\ [][\A r \in Runs :
          run'[r].pc # run[r].pc =>
            /\ run'[r].pc = "download" => run[r].pc = "idle"
            /\ run'[r].pc = "parse" => run[r].pc = "download" /\ run'[r].failed = "none"
            /\ run'[r].pc = "check" => run[r].pc = "parse" /\ run'[r].failed = "none"
            /\ run'[r].pc = "insert" => run[r].pc = "check" /\ run'[r].failed = "none"]_vars
  /\ [][table' # table =>
          \E r \in Runs : run[r].pc = "insert" /\ run[r].failed = "none"
                          /\ run'[r].pc # "insert"]_vars

\* C17 witness: a message whose parse failed is done, and the table is as it
\* was.
C17_Witness ==
  \E r \in Runs :
    /\ run[r].trigger = "broker" /\ run[r].pc = "done" /\ run[r].failed = "parse"
    /\ ~run[r].called /\ table = StoredBefore

RECURSIVE SumSizes(_)
SumSizes(S) ==
  IF S = {} THEN 0
  ELSE LET r == CHOOSE q \in S : TRUE IN SizeOf(run[r].url) + SumSizes(S \ {r})

\* Runs that have updated at least k collectors.
EmittedAtLeast(k) == {r \in Runs : run[r].emitted >= k}

Ended(r) == run[r].pc \in {"done", "exit"}

\* C18 as stated: every ended run whose three stages succeeded has emitted
\* all its metrics, a run with a failed stage none; the counter is the sum of
\* the sizes of the files of the runs whose stages succeeded.
C18_EmittedPerSuccessfulRun ==
  /\ \A r \in Runs :
       /\ (Ended(r) /\ run[r].returned) => run[r].emitted = Collectors
       /\ ~run[r].returned => run[r].emitted = 0
  /\ metrics.net = SumSizes({r \in Runs : Ended(r) /\ run[r].returned})

\* C18 amended: a run whose three stages succeeded emits all five metrics when
\* no collector raises and those before the failing one otherwise, in the single
\* step after its write; a run with a failed stage emits none; the histogram
\* counts and the counter never decrease, and the counter is the sum of the
\* file sizes of the runs whose emission completed.
C18_EmissionPerRun ==
  /\ [](\A r \in Runs :
          /\ ~run[r].returned => run[r].emitted = 0
          /\ (Ended(r) /\ run[r].returned /\ run[r].failed = "none") =>
               run[r].emitted = Collectors
          /\ run[r].failed = "metrics" =>
               run[r].returned /\ run[r].emitted < Collectors /\ ~collectorsUp)
  /\ [](/\ metrics.download = Cardinality(EmittedAtLeast(1))
        /\ metrics.parse = Cardinality(EmittedAtLeast(2))
        /\ metrics.db = Cardinality(EmittedAtLeast(3))
        /\ metrics.net = SumSizes(EmittedAtLeast(Collectors)))
  /\ [][/\ metrics'.net >= metrics.net
        /\ metrics'.download >= metrics.download
        /\ metrics'.parse >= metrics.parse
        /\ metrics'.db >= metrics.db
        /\ metrics' # metrics =>
             \E r \in Runs : run[r].pc = "metrics" /\ run'[r].pc # "metrics"]_vars

\* C18 witness: a run that wrote 0 rows because the file was already ingested
\* has emitted its metrics, the counter holds its file size.
C18_Witness ==
  \E r \in Runs :
    /\ run[r].pc = "done" /\ run[r].returned /\ run[r].seen > 0 /\ run[r].inserted = 0
    /\ run[r].n >= 1 /\ run[r].emitted = Collectors
    /\ metrics.net = 2 /\ metrics.download = 1

RECURSIVE Pow2(_)
Pow2(k) == IF k = 0 THEN 1 ELSE 2 * Pow2(k - 1)

SameFile(q, r) == q # r /\ run[q].fname = run[r].fname /\ run[r].fname # NoName

\* C1: of the runs for one logical file name at most one stores rows, and no
\* two of them report rows written.
C1_AtMostOneBatchPerFile ==
  \A q, r \in Runs :
    SameFile(q, r) =>
      /\ ~(RowsOf(q) # {} /\ RowsOf(r) # {})
      /\ ~(run[q].returned /\ run[q].inserted > 0 /\ run[r].returned /\ run[r].inserted > 0)

\* C2 as stated: an insert_batch call made after another call for the same
\* file name has returned reports 0 rows written and stores no row, whatever the
\* two record sets were.
C2_SecondCallWritesNothing ==
  \A r \in Runs :
    (run[r].returned /\ \E q \in run[r].before : SameFile(q, r)) =>
      run[r].inserted = 0 /\ RowsOf(r) = {}

\* C2 amended: the second call reports 0 rows written and stores no row when
\* the first record set was not empty or the second one is empty.
C2_SecondCallAfterStoredRows ==
  \A r \in Runs :
    (run[r].returned
       /\ \E q \in run[r].before : SameFile(q, r) /\ (run[q].n >= 1 \/ run[r].n = 0)) =>
      run[r].inserted = 0 /\ RowsOf(r) = {}

\* C2 witness: a second call with records returned 0 after a first call that
\* stored a batch of another size.
C2_Witness ==
  \E q, r \in Runs :
    /\ SameFile(q, r) /\ q \in run[r].before /\ run[r].returned
    /\ run[q].inserted >= 1 /\ run[r].n >= 1 /\ run[r].n # run[q].n
    /\ run[r].inserted = 0 /\ Cardinality(RowsUnder(run[r].fname)) = run[q].n

\* C3: once an insert_batch call has ended (returned or raised), the table
\* holds all rows of its batch or none of them.
C3_AllOrNothing ==
  \A r \in Runs :
    (run[r].called /\ run[r].pc \notin {"check", "insert"}) =>
      Cardinality(RowsOf(r)) \in {0, run[r].n}

\* C4: POST /insert answers 400 with a detail for a failed download or parse
\* and 500 with a detail for a failed store.
C4_StageFailureStatus ==
  \A r \in Runs :
    (run[r].trigger = "http" /\ run[r].pc = "done") =>
      /\ run[r].failed \in {"download", "parse"} =>
           run[r].status = 400 /\ run[r].detail # ""
      /\ run[r].failed = "store" => run[r].status = 500 /\ run[r].detail # ""

\* The failures C5 names: an invalid body or a stage that raises.
Poison == {"json", "download", "parse", "store"}

PoisonAcked ==
  \A r \in Runs :
    (run[r].trigger = "broker" /\ run[r].pc = "done" /\ run[r].failed \in Poison) =>
      run[r].final = "ack" /\ ~run[r].raised

\* C5: a message with an invalid body or a failing stage is acknowledged,
\* no step of its handler moves run_consumer, and run_consumer leaves
\* Subscribed only when it is cancelled.
C5_PoisonMessageIsolated ==
  /\ []PoisonAcked
  /\ [][run' # run => UNCHANGED loopVars]_vars
  /\ [][(cpc = "subscribed" /\ cpc' # "subscribed") => cancelAt' = "subscribed"]_vars

\* C5 witness: a message whose write failed is acknowledged and the consumer
\* is still subscribed, nothing slept.
C5_Witness ==
  \E r \in Runs :
    /\ run[r].trigger = "broker" /\ run[r].pc = "done" /\ run[r].failed = "store"
    /\ run[r].final = "ack"
    /\ cpc = "subscribed" /\ waits = <<>>

\* C6: no exception leaves handle_message, whatever the body.
C6_HandlerNeverRaises == \A r \in Runs : ~run[r].raised

\* C7: the N-th consecutive failure is followed by a sleep of min(2^(N-1), 30)
\* seconds, every attempt after the first comes after such a sleep, and the
\* backoff is 1 again once subscribed.
C7_BackoffSchedule ==
  /\ \A i \in 1..Len(waits) : waits[i] = Min(Pow2(i - 1), 30) /\ waits[i] >= 1
  /\ cpc = "connect" => attempts = Len(waits)
  /\ (cpc = "sleep" /\ Len(waits) < MaxWaits) => waits[Len(waits)] = backoff
  /\ cpc = "subscribed" => backoff = 1

\* C7 witness: three refused attempts, waits 1, 2, 4, then subscribed with
\* the backoff back at 1.
C7_Witness == cpc = "subscribed" /\ waits = <<1, 2, 4>> /\ backoff = 1

\* C8: a cancellation that arrives while subscribed ends run_consumer with the
\* connection closed, and an ended run_consumer does nothing more (no further
\* connection attempt).
C8_CancelWhileSubscribed ==
  /\ []((cpc = "cancelled" /\ cancelAt = "subscribed") => connection = "closed")
  /\ [][cpc = "cancelled" => UNCHANGED loopVars]_vars

\* C8 witness: cancelled while subscribed, ended, connection closed.
C8_Witness == cpc = "cancelled" /\ cancelAt = "subscribed" /\ connection = "closed"

\* C9: if the broker stays up from some point on and nobody cancels, the
\* consumer gets subscribed.
C9_EventuallySubscribed ==
  (<>[]brokerUp /\ [](cancelAt = "none")) => <>(cpc = "subscribed")

\* C9 witness: subscribed after failed attempts.
C9_Witness == cpc = "subscribed" /\ Len(waits) >= 2 /\ cancelAt = "none"

Disconnected(r) == svc[r].disconnects > 0

\* C10: after disconnect() the instance stays closed, close() was called once,
\* nothing is sent through it, insert_batch and the direct calls raise the
\* connection-closed error, and POST /insert answers 500.
C10_ClosedStaysClosed ==
  /\ [](\A r \in Runs : Disconnected(r) =>
          /\ svc[r].closed /\ ~svc[r].client
          /\ svc[r].closes = 1
          /\ ~svc[r].sentClosed)
  /\ [][\A r \in Runs :
          /\ (Disconnected(r) /\ run[r].pc = "check" /\ run'[r].pc # "check") =>
               /\ run'[r].failed = "store" /\ run'[r].err = "closed"
               /\ run'[r].trigger = "http" => run'[r].status = 500
               /\ table' = table
          /\ (Disconnected(r) /\ svc'[r].last # svc[r].last) =>
               svc'[r].last = "closed" /\ table' = table
          /\ (Disconnected(r) /\ svc'[r].disconnects # svc[r].disconnects) =>
               svc'[r] = [svc[r] EXCEPT !.disconnects = 2]]_vars

\* C10 witness: disconnect() called twice, then a direct call and a POST
\* /insert on the closed instance.
C10_Witness ==
  \E r \in Runs :
    /\ svc[r].disconnects = 2 /\ svc[r].closes = 1 /\ svc[r].last = "closed"
    /\ run[r].trigger = "http" /\ run[r].pc = "done"
    /\ run[r].err = "closed" /\ run[r].status = 500

\* The awaits of run_consumer before the subscription.
SetupPcs == {"connect", "channel", "qos", "declare", "consume"}

\* C19 as stated: run_consumer neither returns nor raises an error, ends only
\* after a cancellation, and once connection.close() has raised the loop is in
\* its backoff sleep or past it, at a new connection attempt.
C19_ErrorsLeadToRetry ==
  /\ cpc \notin {"returned", "raised"}
  /\ cpc = "cancelled" => cancelAt # "none"
  /\ closeErrs > 0 => cpc \in SetupPcs \cup {"sleep", "subscribed"}

\* C19 amended: run_consumer neither returns nor raises an error and ends only
\* after a cancellation; an exception while connecting or setting up leads to
\* the backoff sleep and from there to a new attempt; connection.close() is
\* called only once a cancellation has arrived, and an exception it raises is
\* logged while the cancellation goes on, without sleep or new attempt.
C19_OnlyCancellationEnds ==
  /\ [](cpc \in SetupPcs \cup {"subscribed", "sleep", "finally", "on_cancel", "cancelled"})
  /\ [](cpc \in {"finally", "on_cancel", "cancelled"} => cancelAt # "none")
  /\ [][(cpc \in SetupPcs /\ cpc' # cpc /\ cancelAt' = cancelAt) =>
          \/ cpc' = "sleep" /\ Len(waits') >= Len(waits) /\ setup' = setup
          \/ Len(setup') = Len(setup) + 1 \/ (cpc = "connect" /\ setup' = <<"connect">>)]_vars
  /\ [][(cpc = "sleep" /\ cpc' # cpc /\ cancelAt' = cancelAt) => cpc' = "connect"]_vars
  /\ [][closeErrs' # closeErrs =>
          /\ cancelAt # "none" /\ cpc' \in {"on_cancel", "cancelled"}
          /\ waits' = waits /\ attempts' = attempts]_vars

\* C19 witness: a set-up failure was slept over, and after the cancellation
\* both calls of connection.close() raised.
C19_Witness ==
  /\ cpc = "cancelled" /\ cancelAt = "subscribed" /\ closeErrs = 2
  /\ Len(waits) >= 1 /\ leaked >= 1

\* C20: whenever the consumer is subscribed, connect, channel, prefetch,
\* durable queue and callback registration have completed in that order on the
\* connection it holds, and the backoff is 1.
C20_SubscribedAfterSetup ==
  cpc = "subscribed" =>
    /\ setup = <<"connect", "channel", "qos", "declare_durable", "consume">>
    /\ connection = "open"
    /\ backoff = 1

\* C20 witness: subscribed on the third connection, after one refused attempt
\* and one connection whose set-up failed.
C20_Witness ==
  /\ cpc = "subscribed" /\ attempts = 3 /\ waits = <<1, 2>> /\ leaked = 1
  /\ setup = <<"connect", "channel", "qos", "declare_durable", "consume">>

\* C21: a cancellation does not reach run_consumer while a stage of a message
\* runs, and the connection is not closed and the loop has not exited before
\* every message that was taken up is finalized.
C21_FinalizedBeforeClose ==
  /\ LoopBusy => (cancelAt = "none" /\ connection = "open")
  /\ \A r \in Runs :
       (run[r].trigger = "broker" /\ run[r].pc # "done") =>
         (connection # "closed" /\ cpc # "cancelled")

\* The place of a position in the course of a run.
PcRank(pc) ==
  CASE pc = "download" -> 1
    [] pc = "parse" -> 2
    [] pc = "check" -> 3
    [] pc = "insert" -> 4
    [] pc = "metrics" -> 5
    [] pc = "exit" -> 6
    [] pc = "done" -> 7
    [] OTHER -> 0

\* C22: every step of a run takes it to a later position, so no stage of a
\* request or message is entered twice, and a failed stage ends the run's
\* stages.
C22_NoStageTwice ==
  /\ [][\A r \in Runs :
          run'[r] # run[r] => PcRank(run'[r].pc) > PcRank(run[r].pc)]_vars
  /\ [](\A r \in Runs :
          run[r].failed # "none" => run[r].pc \in {"exit", "done"})

\* C22 witness: a message whose download failed is acknowledged, no later
\* stage was entered.
C22_Witness ==
  \E r \in Runs :
    /\ run[r].trigger = "broker" /\ run[r].pc = "done" /\ run[r].failed = "download"
    /\ run[r].final = "ack" /\ ~run[r].called /\ run[r].emitted = 0

\* Some time key of the field is missing (for the keys its path reads).
TimeKeyMissing(f) ==
  IF f.path = "bufr" THEN Missing \in {f.year, f.month, f.day, f.hour}
  ELSE (f.dataDate = Missing /\ f.date = Missing) \/ (f.dataTime = Missing /\ f.time = Missing)

\* No time key of the field is present.
TimeKeysAbsent(f) ==
  IF f.path = "bufr" THEN {f.year, f.month, f.day, f.hour} = {Missing}
  ELSE {f.dataDate, f.date, f.dataTime, f.time} = {Missing}

\* C23: a field with a missing time key that has an array ends as a record,
\* never as a raise, and with no time key at all its forecast_date is on the
\* wall clock's day.
C23_MissingTimeYieldsRecord ==
  (dec.phase \in {"record", "raise"} /\ dec.shape \in {<<1>>, <<1, 1>>}
     /\ TimeKeyMissing(dec)) =>
    /\ dec.phase = "record"
    /\ TimeKeysAbsent(dec) => [dec.fdate EXCEPT !.h = 0] = [dec.now EXCEPT !.h = 0]

\* C24: the forecast_hour of a record of parse_file or GribParser is the step
\* key when present (0 too), else forecastTime when present, else the upper
\* bound of stepRange, else 0.
C24_ForecastHourChain ==
  (dec.phase = "record" /\ dec.path \in {"parse_file", "grib"}) =>
    dec.fhour = IF dec.step # Missing THEN dec.step
                ELSE IF dec.forecastTime # Missing THEN dec.forecastTime
                ELSE IF dec.stepRange # NoRange THEN dec.stepRange.b
                ELSE 0

\* Connections run_consumer opened that are open.
OpenConnections == leaked + (IF connection = "open" THEN 1 ELSE 0)

\* C25: at most one connection opened by run_consumer is open.
C25_AtMostOneOpen == OpenConnections <= 1

\* C26: once run_consumer has ended, no connection it opened is open.
C26_NothingOpenAtEnd == cpc = "cancelled" => OpenConnections = 0

\* C27: runs for one URL work under one logical file name, whatever their
\* trigger.
C27_SameNameOnBothTriggers ==
  \A q, r \in Runs :
    (run[q].url # NoUrl /\ run[q].url = run[r].url) => run[q].fname = run[r].fname

\* C28: a run that has ended has left no scratch file.
C28_ScratchRemoved ==
  \A r \in Runs : run[r].pc = "done" => ~run[r].scratch

\* C29: a record of parse_file or GribParser whose field has a dataDate that
\* names a day and a dataTime HHMM with HH below 24 and MM below 60 carries
\* that day with hour HH.
C29_HourFromDataTime ==
  (dec.phase = "record" /\ dec.path \in {"parse_file", "grib"}
     /\ dec.dataDate # Missing /\ ValidDate(DateDigits(dec.dataDate, 0))
     /\ dec.dataTime \in 0..2359 /\ dec.dataTime % 100 < 60) =>
    dec.fdate = DateDigits(dec.dataDate, dec.dataTime \div 100)

\* C30: the records a run hands to insert_batch carry the file_name the call
\* is made with, so the rows of a run are stored under the name its existence
\* check, and that of a later run for the file, asks for.
C30_RecordsCarryFileName ==
  /\ \A r \in Runs : run[r].called => run[r].recName = run[r].fname
  /\ \A w \in table : w.batch \in Runs => w.file = run[w.batch].fname
  /\ \A q \in Runs : \A r \in run[q].before :
       (run[r].inserted > 0 /\ run[q].fname = run[r].fname
          /\ run[q].pc \in {"insert", "metrics", "exit", "done"}
          /\ run[q].failed # "store") =>
         run[q].seen >= run[r].inserted

\* C30 witness: a message for a file that a request has ingested finds the
\* request's rows and writes nothing.
C30_Witness ==
  \E q, r \in Runs :
    /\ run[r].trigger = "http" /\ run[r].inserted = 2 /\ RowsOf(r) # {}
    /\ run[q].trigger = "broker" /\ run[q].fname = run[r].fname /\ r \in run[q].before
    /\ run[q].seen = 2 /\ run[q].returned /\ run[q].inserted = 0

====
